---- MODULE Spec2Model ----
(***************************************************************************)
(* The notebook script sqlite3_Design_&_creating_DB.py as a state machine. *)
(* The state is the SQLite store mlb.db (which tables exist and their      *)
(* rows), the CSV inputs the script reads, and the position of the script. *)
(* Every statement the script sends to the store is one action, because    *)
(* every statement is committed on its own (run_command sets autocommit).  *)
(* Columns that are copied 1:1 and take part in no key, no foreign key and *)
(* no expression are left out of the rows (they are listed where a table   *)
(* is introduced).                                                         *)
(***************************************************************************)
EXTENDS Integers, Sequences, FiniteSets, TLC

VARIABLES
    db,            \* the store mlb.db: table name -> [exists, rows]
    csv_game_log,  \* game_log.csv as read by pd.read_csv (In[3])
    csv_team_codes,\* team_codes.csv as read by pd.read_csv (In[7])
    csv_appearance_type, \* appearance_type.csv as read by pd.read_csv (In[19])
    pc,            \* index in Script of the next statement of this run
    status,        \* "running", "halted" (uncaught exception) or "done"
    error,         \* the failure that halted the run, "none" otherwise
    run,           \* how many times the script has been started
    interrupted,   \* TRUE once a run was killed between two statements
    completed,     \* indices of the statements this run executed with success
    snapshot,      \* normalized tables when a run first completed, else <<>>
    pre_cleanup    \* normalized tables when this run reached In[26], else <<>>

vars == <<db, csv_game_log, csv_team_codes, csv_appearance_type, pc, status, error, run,
          interrupted, completed, snapshot, pre_cleanup>>

----------------------------------------------------------------------------
(* Bounds of the model. *)

\* game_log.csv holds at most MaxRows rows
MaxRows == 2
\* the script is started at most MaxRuns times against the same store
MaxRuns == 2

----------------------------------------------------------------------------
(* SQL values. *)

\* SQL NULL in a TEXT column (pandas writes NaN as NULL)
NULL == "NULL"
\* SQL NULL in an INTEGER column
NULLI == -1

Digit == <<"0", "1", "2", "3", "4", "5", "6", "7", "8", "9">>

\* decimal text of a non-negative integer
RECURSIVE NatToStr(_)
NatToStr(n) ==
    IF n < 10 THEN Digit[n + 1]
    ELSE NatToStr(n \div 10) \o Digit[(n % 10) + 1]

\* the text SQLite gives an INTEGER value where TEXT is needed
ToText(n) == IF n = NULLI THEN NULL ELSE NatToStr(n)

\* the SQL operator || : NULL if either side is NULL
Concat(a, b) == IF a = NULL \/ b = NULL THEN NULL ELSE a \o b

\* CAST(x AS INT) of an INTEGER column value
CastInt(x) == x

\* a comparison that is also true of equal values
SqlGreaterOrEqual(a, b) == a # NULLI /\ b # NULLI /\ a >= b

\* the SQL comparison a > b as used in a CASE WHEN: unknown (NULL) is not true
SqlGreater(a, b) == a # NULLI /\ b # NULLI /\ a > b

----------------------------------------------------------------------------
(* Tables of the store. *)

RawTables == <<"game_log", "person_codes", "team_codes", "park_codes">>

\* a cleanup that leaves person_codes in the store
CleanupTablesWithoutPersonCodes == <<"game_log", "park_codes", "team_codes">>

CleanupTables == <<"game_log", "park_codes", "team_codes", "person_codes">>

NormalizedTables ==
    {"person", "park", "league", "appearance_type",
     "team", "game", "team_appearance", "person_appearance"}

AllTables == NormalizedTables \cup {RawTables[i] : i \in 1..Len(RawTables)}

\* a table the store does not hold
Absent == [exists |-> FALSE, rows |-> <<>>, added |-> {}]

\* a table just created: no rows, no column added by ALTER TABLE
Empty == [exists |-> TRUE, rows |-> <<>>, added |-> {}]

\* the PRIMARY KEY columns of each table the script creates
PrimaryKey(t) ==
    CASE t = "person" -> <<"person_id">>
      [] t = "park" -> <<"park_id">>
      [] t = "league" -> <<"league_id">>
      [] t = "appearance_type" -> <<"appearance_type_id">>
      [] t = "team" -> <<"team_id">>
      [] t = "game" -> <<"game_id">>
      [] t = "team_appearance" -> <<"team_id", "game_id">>
      [] t = "person_appearance" -> <<"appearance_id">>
      [] OTHER -> <<>>

FK(col, ref, refcol) == [col |-> col, ref |-> ref, refcol |-> refcol]

\* the FOREIGN KEY clauses of each CREATE TABLE, as the script writes them
ForeignKeys(t) ==
    CASE t = "team" -> {FK("league_id", "league", "league_id")}
      [] t = "game" -> {FK("park_id", "park", "park_id")}
      [] t = "team_appearance" ->
            {FK("team_id", "team", "team_id"),
             FK("game_id", "game", "game_id"),
             FK("team_id", "team", "team_id")}
      [] t = "person_appearance" ->
            {FK("person_id", "person", "person_id"),
             FK("team_id", "team", "team_id"),
             FK("game_id", "game", "game_id"),
             FK("appearance_type_id", "appearance_type", "appearance_type_id")}
      [] OTHER -> {}

\* the columns of INTEGER affinity among those the model keeps
IntegerColumns == {"home", "score", "appearance_id", "number_of_game", "day"}

IsNull(col, v) == IF col \in IntegerColumns THEN v = NULLI ELSE v = NULL

Range(s) == {s[i] : i \in 1..Len(s)}

----------------------------------------------------------------------------
(* The CSV inputs.  game_log.csv, person_codes.csv, park_codes.csv,        *)
(* team_codes.csv and appearance_type.csv are read with pd.read_csv; the   *)
(* rows below are the values the script can meet.  Of game_log the model   *)
(* keeps the columns that feed a key, a foreign key or an expression:      *)
(* the statistics columns (h_at_bats ... v_triple_plays, length_outs,      *)
(* attendance, ...) are copied 1:1 and are represented by score alone.     *)

NumSlots == 9

Slots == 1..NumSlots

NoPlayer == [id |-> NULL, def_pos |-> NULLI]

Player(id, pos) == [id |-> id, def_pos |-> pos]

\* {hv}_player_{num}_id and {hv}_player_{num}_def_pos for num in 1..9
Lineup(first, second) ==
    [num \in Slots |-> IF num = 1 THEN first ELSE IF num = 2 THEN second ELSE NoPlayer]

BaseRow ==
    [date |-> 18710504, number_of_game |-> 0, day_night |-> "D",
     v_name |-> "CL1", v_league |-> "NL", h_name |-> "FW1", h_league |-> "NL",
     v_score |-> 0, h_score |-> 2, park_id |-> "FOR01",
     hp_umpire_id |-> "u1", 1b_umpire_id |-> "u2", 2b_umpire_id |-> NULL,
     3b_umpire_id |-> NULL, lf_umpire_id |-> NULL, rf_umpire_id |-> NULL,
     v_manager_id |-> "m1", h_manager_id |-> "m2",
     winning_pitcher_id |-> "p1", losing_pitcher_id |-> "p3",
     saving_pitcher_id |-> NULL, winning_rbi_batter_id |-> "p2",
     v_starting_pitcher_id |-> "p3", h_starting_pitcher_id |-> "p1",
     h_player |-> Lineup(Player("p1", 1), Player("p2", 2)),
     v_player |-> Lineup(Player("p3", 1), NoPlayer)]

\* a row with no person at all
NoPersonsRow ==
    [BaseRow EXCEPT
        !.hp_umpire_id = NULL, !.1b_umpire_id = NULL,
        !.v_manager_id = NULL, !.h_manager_id = NULL,
        !.winning_pitcher_id = NULL, !.losing_pitcher_id = NULL,
        !.winning_rbi_batter_id = NULL,
        !.v_starting_pitcher_id = NULL, !.h_starting_pitcher_id = NULL,
        !.h_player = Lineup(NoPlayer, NoPlayer),
        !.v_player = Lineup(NoPlayer, NoPlayer),
        !.date = 18710505]

\* the rows game_log.csv is drawn from
RowSpace ==
    {BaseRow,
     \* a team listed as its own visitor
     [BaseRow EXCEPT !.v_name = "FW1"],
     \* the same date, home team and game number as BaseRow, another visitor
     [BaseRow EXCEPT !.v_name = "BS1", !.v_score = 1],
     \* the second game of the day, at night, won by the visitor
     [BaseRow EXCEPT !.number_of_game = 1, !.day_night = "N", !.v_score = 3,
                     !.h_name = "CL1", !.v_name = "FW1", !.h_league = "AL",
                     !.saving_pitcher_id = "p2"],
     \* a tied score
     [BaseRow EXCEPT !.date = 18710505, !.h_score = 1, !.v_score = 1,
                     !.day_night = NULL],
     \* no score recorded
     [BaseRow EXCEPT !.date = 18710505, !.h_score = NULLI, !.v_score = NULLI,
                     !.park_id = NULL],
     \* the same player in two batting slots with the same defensive position
     [BaseRow EXCEPT !.h_player = Lineup(Player("p1", 1), Player("p1", 1))],
     \* defensive position 0
     [BaseRow EXCEPT !.h_player = Lineup(Player("p1", 0), Player("p2", 2))],
     \* defensive position undefined, and position 10
     [BaseRow EXCEPT !.h_player = Lineup(Player("p1", NULLI), Player("p2", 10))],
     \* a park that park_codes does not list
     [BaseRow EXCEPT !.park_id = "XXX01"],
     \* a league that is none of the six, and no league
     [BaseRow EXCEPT !.h_league = "XX", !.v_league = NULL],
     NoPersonsRow,
     \* a game of which only the winning and the losing pitcher are recorded
     [NoPersonsRow EXCEPT !.number_of_game = 1, !.winning_pitcher_id = "p1",
                          !.losing_pitcher_id = "p3"],
     \* a person that person_codes does not list
     [BaseRow EXCEPT !.winning_pitcher_id = "zz"],
     \* a team that team_codes does not list
     [BaseRow EXCEPT !.v_name = "XX1"]}

RECURSIVE SeqsUpTo(_, _)
\* the sequences over S of length at most n
SeqsUpTo(S, n) ==
    IF n = 0 THEN {<<>>}
    ELSE LET shorter == SeqsUpTo(S, n - 1)
         IN  shorter \cup {Append(s, x) : s \in shorter, x \in S}

GameLogInputs == SeqsUpTo(RowSpace, MaxRows)

\* person_codes.csv: id, last, first (the debut columns are not used)
PersonCodesCsv ==
    <<[id |-> "u1", last |-> "Umpire", first |-> "Una"],
      [id |-> "u2", last |-> "Umpire", first |-> "Ugo"],
      [id |-> "m1", last |-> "Manager", first |-> "Max"],
      [id |-> "m2", last |-> "Manager", first |-> "Mia"],
      [id |-> "p1", last |-> "Player", first |-> "Pat"],
      [id |-> "p2", last |-> "Player", first |-> "Pam"],
      [id |-> "p3", last |-> "Player", first |-> "Per"],
      [id |-> "p1", last |-> "Player", first |-> "Pat again"]>>

\* park_codes.csv: park_id, name, aka (city, state, notes are copied alike)
ParkCodesCsv ==
    <<[park_id |-> "FOR01", name |-> "Hamilton Field", aka |-> NULL],
      [park_id |-> "CLE01", name |-> "National Association Grounds", aka |-> NULL]>>

\* team_codes.csv: team_id, league, franch_id (city, nickname are copied alike)
TeamCodesCsv ==
    <<[team_id |-> "FW1", league |-> "NL", franch_id |-> "FW1"],
      [team_id |-> "CL1", league |-> NULL, franch_id |-> "CL1"],
      [team_id |-> "BS1", league |-> "AL", franch_id |-> "BS1"]>>

\* a team_codes.csv with a league that is none of the six
TeamCodesCsvBadLeague ==
    Append(TeamCodesCsv, [team_id |-> "XX1", league |-> "XX", franch_id |-> "XX1"])

\* the six rows In[18] inserts into league
LeagueValues ==
    <<[league_id |-> "NL", name |-> "National League"],
      [league_id |-> "AL", name |-> "American League"],
      [league_id |-> "AA", name |-> "American Association"],
      [league_id |-> "FL", name |-> "Federal League"],
      [league_id |-> "PL", name |-> "Players League"],
      [league_id |-> "UA", name |-> "Union Association"]>>

AT(id, name, category) ==
    [appearance_type_id |-> id, name |-> name, category |-> category]

\* appearance_type.csv: the batting slots O1..O9, the defensive positions
\* D1..D10 (10 is 'Unknown Position'), the umpire roles, manager, awards
AppearanceTypeCsv ==
    [num \in Slots |-> AT("O" \o ToText(num), "Batter", "offense")]
    \o [num \in 1..10 |->
            AT("D" \o ToText(num),
               IF num = 10 THEN "Unknown Position" ELSE "Position", "defense")]
    \o <<AT("UHP", "Home Plate", "umpire"), AT("U1B", "First Base", "umpire"),
         AT("U2B", "Second Base", "umpire"), AT("U3B", "Third Base", "umpire"),
         AT("ULF", "Left Field", "umpire"), AT("URF", "Right Field", "umpire"),
         AT("MM", "Manager", "manager"), AT("MC", "Coach", "manager"),
         AT("AWP", "Winning Pitcher", "award"), AT("ALP", "Losing Pitcher", "award"),
         AT("ASP", "Saving Pitcher", "award"),
         AT("AWB", "Winning RBI Batter", "award"),
         AT("PSP", "Starting Pitcher", "pitcher")>>

\* an appearance_type.csv that lists the id O1 twice
AppearanceTypeCsvRepeatedId ==
    AppearanceTypeCsv \o <<AT("O1", "Leadoff Batter", "offense")>>

\* the inputs of one behaviour: (game_log.csv, team_codes.csv,
\* appearance_type.csv)
Inputs ==
    {<<g, TeamCodesCsv, AppearanceTypeCsv>> : g \in GameLogInputs}
        \cup {<<g, TeamCodesCsvBadLeague, AppearanceTypeCsv>> : g \in {<<BaseRow>>}}
        \cup {<<g, TeamCodesCsv, AppearanceTypeCsvRepeatedId>> : g \in {<<BaseRow>>}}

----------------------------------------------------------------------------
(* The store: what SQLite does with one statement.  Every operator gives   *)
(* [err, db]: the failure ("none" if the statement succeeded) and the      *)
(* store after the statement; a failed statement leaves the store as it    *)
(* was (the statement is rolled back).                                     *)

Result(err, d) == [err |-> err, db |-> d]

\* the BINARY collation of the TEXT values the inputs can produce
Collation ==
    <<"18710504BS10", "18710504BS11", "18710504CL10", "18710504CL11",
      "18710504FW10", "18710504FW11", "18710504XX10", "18710504XX11",
      "18710505BS10", "18710505BS11", "18710505CL10", "18710505CL11",
      "18710505FW10", "18710505FW11", "18710505XX10", "18710505XX11", "AA",
      "AL", "ALP", "ASP", "AWB", "AWP", "BS1", "CL1", "D0", "D1", "D10",
      "D2", "D3", "D4", "D5", "D6", "D7", "D8", "D9", "FL", "FW1", "MC",
      "MM", "NL", "O1", "O2", "O3", "O4", "O5", "O6", "O7", "O8", "O9",
      "PL", "PSP", "U1B", "U2B", "U3B", "UA", "UHP", "ULF", "URF", "XX",
      "XX1", "m1", "m2", "p1", "p2", "p3", "u1", "u2", "zz">>

TextRank(s) ==
    IF s = NULL THEN 0 ELSE CHOOSE i \in 1..Len(Collation) : Collation[i] = s

\* NULL sorts first, INTEGER by value, TEXT by the BINARY collation
ValueLess(col, x, y) ==
    IF col \in IntegerColumns THEN x < y ELSE TextRank(x) < TextRank(y)

RECURSIVE RowLeq(_, _, _)
\* row a is not after row b in the order of the columns cols
RowLeq(a, b, cols) ==
    IF cols = <<>> THEN TRUE
    ELSE LET c == Head(cols)
         IN  IF a[c] = b[c] THEN RowLeq(a, b, Tail(cols))
             ELSE ValueLess(c, a[c], b[c])

RECURSIVE Sorted(_, _)
\* the rows of a compound SELECT ... UNION ... : distinct, in column order
Sorted(S, cols) ==
    IF S = {} THEN <<>>
    ELSE LET m == CHOOSE m \in S : \A x \in S : RowLeq(m, x, cols)
         IN  <<m>> \o Sorted(S \ {m}, cols)

\* a row r collides with a row of rows on the primary key of table t
\* (a NULL in a key column never collides)
PKConflict(t, rows, r) ==
    /\ PrimaryKey(t) # <<>>
    /\ \E i \in 1..Len(rows) :
        \A k \in 1..Len(PrimaryKey(t)) :
            LET c == PrimaryKey(t)[k]
            IN  ~IsNull(c, r[c]) /\ rows[i][c] = r[c]

RECURSIVE InsertRows(_, _, _, _)
\* INSERT [OR IGNORE] of the rows new, in order, into rows of table t
InsertRows(t, rows, new, orIgnore) ==
    IF new = <<>> THEN [err |-> "none", rows |-> rows]
    ELSE IF PKConflict(t, rows, Head(new))
         THEN IF orIgnore THEN InsertRows(t, rows, Tail(new), orIgnore)
              ELSE [err |-> "unique", rows |-> rows]
         ELSE InsertRows(t, Append(rows, Head(new)), Tail(new), orIgnore)

\* some row of inserted holds a non-NULL foreign key without a parent row
FKViolation(d, t, inserted) ==
    \E r \in inserted : \E fk \in ForeignKeys(t) :
        /\ ~IsNull(fk.col, r[fk.col])
        /\ \A p \in Range(d[fk.ref].rows) : p[fk.refcol] # r[fk.col]

\* an INSERT whose rows stay in the table when a foreign key fails
InsertWithoutRollback(d, t, new, orIgnore, fkOn) ==
    IF ~d[t].exists THEN Result("no_table", d)
    ELSE LET ins == InsertRows(t, d[t].rows, new, orIgnore)
             inserted == {ins.rows[i] : i \in (Len(d[t].rows) + 1)..Len(ins.rows)}
         IN  IF ins.err # "none" THEN Result(ins.err, d)
             ELSE IF fkOn /\ FKViolation(d, t, inserted)
                  THEN Result("fk", [d EXCEPT ![t].rows = ins.rows])
             ELSE Result("none", [d EXCEPT ![t].rows = ins.rows])

\* INSERT [OR IGNORE] INTO t SELECT ..., with or without PRAGMA foreign_keys
Insert(d, t, new, orIgnore, fkOn) ==
    IF ~d[t].exists THEN Result("no_table", d)
    ELSE LET ins == InsertRows(t, d[t].rows, new, orIgnore)
             inserted == {ins.rows[i] : i \in (Len(d[t].rows) + 1)..Len(ins.rows)}
         IN  IF ins.err # "none" THEN Result(ins.err, d)
             ELSE IF fkOn /\ FKViolation(d, t, inserted) THEN Result("fk", d)
             ELSE Result("none", [d EXCEPT ![t].rows = ins.rows])

\* CREATE TABLE [IF NOT EXISTS] t
CreateTable(d, t, ifNotExists) ==
    IF d[t].exists
    THEN IF ifNotExists THEN Result("none", d) ELSE Result("exists", d)
    ELSE Result("none", [d EXCEPT ![t] = Empty])

\* a row of some table still refers to a row of t through a foreign key
Referenced(d, t) ==
    \E c \in AllTables : \E fk \in ForeignKeys(c) :
        /\ d[c].exists
        /\ fk.ref = t
        /\ \E r \in Range(d[c].rows) : \E p \in Range(d[t].rows) :
                ~IsNull(fk.col, r[fk.col]) /\ r[fk.col] = p[fk.refcol]

\* DROP TABLE [IF EXISTS] t: with foreign keys on, SQLite first deletes the
\* rows of t and fails when that leaves an immediate constraint violated
DropTable(d, t, ifExists, fkOn) ==
    IF ~d[t].exists
    THEN IF ifExists THEN Result("none", d) ELSE Result("no_table", d)
    ELSE IF fkOn /\ Referenced(d, t) THEN Result("fk", d)
    ELSE Result("none", [d EXCEPT ![t] = Absent])

\* DataFrame.to_sql(name, conn, index=False, if_exists=...): the connection
\* is opened without PRAGMA foreign_keys, the INSERT is a plain INSERT
to_sql(d, t, data, if_exists) ==
    IF d[t].exists /\ if_exists = "fail" THEN Result("exists", d)
    ELSE LET made == IF d[t].exists THEN d ELSE [d EXCEPT ![t] = Empty]
         IN  Insert(made, t, data, FALSE, FALSE)

----------------------------------------------------------------------------
(* The statements of the script. *)

\* run_command: conn.execute('PRAGMA foreign_keys = ON;') before the statement
PragmaForeignKeys == TRUE

\* the data frame In[13] writes to each raw table
RawData(t, game_log_csv, team_codes_csv) ==
    CASE t = "game_log" -> game_log_csv
      [] t = "person_codes" -> PersonCodesCsv
      [] t = "team_codes" -> team_codes_csv
      [] t = "park_codes" -> ParkCodesCsv

\* a statement that reads tables the store does not hold fails
From(d, sources, r) ==
    IF \E t \in sources : ~d[t].exists THEN Result("no_table", d) ELSE r

\* a statement that names game_log.game_id before In[15] added it fails
WithGameId(d, r) ==
    IF "game_id" \notin d["game_log"].added THEN Result("no_column", d) ELSE r

\* In[15] c1: ALTER TABLE game_log ADD COLUMN game_id TEXT
AddColumnGameId(d) ==
    LET log == d["game_log"].rows
    IN  IF "game_id" \in d["game_log"].added THEN Result("dup_column", d)
        ELSE Result("none",
                [d EXCEPT !["game_log"] =
                    [exists |-> TRUE,
                     rows |-> [i \in 1..Len(log) |-> log[i] @@ [game_id |-> NULL]],
                     added |-> d["game_log"].added \cup {"game_id"}]])

\* a game_id with number_of_game ahead of h_name
GameIdNumberFirst(r) ==
    Concat(Concat(ToText(r.date), ToText(r.number_of_game)), r.h_name)

\* date || h_name || number_of_game
GameId(r) == Concat(Concat(ToText(r.date), r.h_name), ToText(r.number_of_game))

\* In[15] c2: UPDATE game_log SET game_id = ... WHERE game_id IS NULL
UpdateGameId(d) ==
    LET log == d["game_log"].rows
    IN  Result("none",
            [d EXCEPT !["game_log"].rows =
                [i \in 1..Len(log) |->
                    IF log[i].game_id = NULL
                    THEN [log[i] EXCEPT !.game_id = GameId(log[i])]
                    ELSE log[i]]])

\* In[16] c2: SELECT id, first, last FROM person_codes
PersonSelect(codes) ==
    [i \in 1..Len(codes) |->
        [person_id |-> codes[i].id, first_name |-> codes[i].first,
         last_name |-> codes[i].last]]

\* In[17] c2: SELECT park_id, name, aka, ... FROM park_codes
ParkSelect(codes) ==
    [i \in 1..Len(codes) |->
        [park_id |-> codes[i].park_id, name |-> codes[i].name,
         nickname |-> codes[i].aka]]

\* In[20] c2: SELECT team_id, league, ..., franch_id FROM team_codes
TeamSelect(codes) ==
    [i \in 1..Len(codes) |->
        [team_id |-> codes[i].team_id, league_id |-> codes[i].league,
         franch_id |-> codes[i].franch_id]]

\* CASE WHEN day_night = "D" THEN 1 WHEN day_night = "N" THEN 0 ELSE NULL END
Day(day_night) ==
    IF day_night = "D" THEN 1 ELSE IF day_night = "N" THEN 0 ELSE NULLI

\* In[21] c2: SELECT game_id, date, number_of_game, park_id, ..., day, ...
\* FROM game_log (game.date is a TEXT column)
GameSelect(log) ==
    [i \in 1..Len(log) |->
        [game_id |-> log[i].game_id, date |-> ToText(log[i].date),
         number_of_game |-> log[i].number_of_game, park_id |-> log[i].park_id,
         day |-> Day(log[i].day_night)]]

TA(team, game, home, league, score) ==
    [team_id |-> team, game_id |-> game, home |-> home, league_id |-> league,
     score |-> score]

TeamAppearanceColumns == <<"team_id", "game_id", "home", "league_id", "score">>

\* a SELECT that leaves out the visiting teams
TeamAppearanceSelectHomeOnly(log) ==
    Sorted({TA(r.h_name, r.game_id, 1, r.h_league, r.h_score) : r \in Range(log)},
           TeamAppearanceColumns)

\* In[22] c2: SELECT h_name, game_id, 1 AS home, h_league, h_score, ...
\* UNION SELECT v_name, game_id, 0 AS home, v_league, v_score, ...
TeamAppearanceSelect(log) ==
    Sorted({TA(r.h_name, r.game_id, 1, r.h_league, r.h_score) : r \in Range(log)}
            \cup {TA(r.v_name, r.game_id, 0, r.v_league, r.v_score) : r \in Range(log)},
           TeamAppearanceColumns)

PA(game, team, person, type) ==
    [game_id |-> game, team_id |-> team, person_id |-> person,
     appearance_type_id |-> type]

PersonAppearanceColumns == <<"game_id", "team_id", "person_id", "appearance_type_id">>

\* an award team that is left NULL unless the home team has the higher score
WinnerNameHomeOrNull(r) == IF SqlGreater(r.h_score, r.v_score) THEN r.h_name ELSE NULL

\* CASE WHEN h_score > v_score THEN h_name ELSE v_name END
WinnerName(r) == IF SqlGreater(r.h_score, r.v_score) THEN r.h_name ELSE r.v_name

\* a losing side chosen by the comparison of the winning side
LoserNameByWinnerTest(r) ==
    IF SqlGreater(r.h_score, r.v_score) THEN r.h_name ELSE r.v_name

\* CASE WHEN h_score < v_score THEN h_name ELSE v_name END
LoserName(r) == IF SqlGreater(r.v_score, r.h_score) THEN r.h_name ELSE r.v_name

\* SELECT game_id, team, person, type FROM game_log WHERE person IS NOT NULL:
\* what one game_log row r gives
Appearances(r, team, person, type) ==
    IF person = NULL THEN {} ELSE {PA(r.game_id, team, person, type)}

\* the selects of In[23] c2 without the four award selects
PersonAppearanceSelectWithoutAwards(log) ==
    Sorted(
        UNION {Appearances(r, NULL, r.hp_umpire_id, "UHP")
                \cup Appearances(r, NULL, r.1b_umpire_id, "U1B")
                \cup Appearances(r, NULL, r.2b_umpire_id, "U2B")
                \cup Appearances(r, NULL, r.3b_umpire_id, "U3B")
                \cup Appearances(r, NULL, r.lf_umpire_id, "ULF")
                \cup Appearances(r, NULL, r.rf_umpire_id, "URF")
                \cup Appearances(r, r.v_name, r.v_manager_id, "MM")
                \cup Appearances(r, r.h_name, r.h_manager_id, "MM")
                \cup Appearances(r, r.v_name, r.v_starting_pitcher_id, "PSP")
                \cup Appearances(r, r.h_name, r.h_starting_pitcher_id, "PSP")
               : r \in Range(log)},
        PersonAppearanceColumns)

\* In[23] c2: the umpire, manager, award and starting-pitcher selects
PersonAppearanceSelect(log) ==
    Sorted(
        UNION {Appearances(r, NULL, r.hp_umpire_id, "UHP")
                \cup Appearances(r, NULL, r.1b_umpire_id, "U1B")
                \cup Appearances(r, NULL, r.2b_umpire_id, "U2B")
                \cup Appearances(r, NULL, r.3b_umpire_id, "U3B")
                \cup Appearances(r, NULL, r.lf_umpire_id, "ULF")
                \cup Appearances(r, NULL, r.rf_umpire_id, "URF")
                \cup Appearances(r, r.v_name, r.v_manager_id, "MM")
                \cup Appearances(r, r.h_name, r.h_manager_id, "MM")
                \cup Appearances(r, WinnerName(r), r.winning_pitcher_id, "AWP")
                \cup Appearances(r, LoserName(r), r.losing_pitcher_id, "ALP")
                \cup Appearances(r, WinnerName(r), r.saving_pitcher_id, "ASP")
                \cup Appearances(r, WinnerName(r), r.winning_rbi_batter_id, "AWB")
                \cup Appearances(r, r.v_name, r.v_starting_pitcher_id, "PSP")
                \cup Appearances(r, r.h_name, r.h_starting_pitcher_id, "PSP")
               : r \in Range(log)},
        PersonAppearanceColumns)

\* {hv}_name
NameOf(r, hv) == IF hv = "h" THEN r.h_name ELSE r.v_name

\* {hv}_player_{num}_id, {hv}_player_{num}_def_pos
PlayerOf(r, hv, num) == IF hv = "h" THEN r.h_player[num] ELSE r.v_player[num]

\* "O{num}"
OffenseType(num) == "O" \o NatToStr(num)

\* "D" || CAST({hv}_player_{num}_def_pos AS INT)
DefenseType(def_pos) == Concat("D", ToText(CastInt(def_pos)))

\* In[23] template.format(hv, num): the offense row and the defense row of
\* every game_log row whose {hv}_player_{num}_id is not NULL
TemplateSelect(log, hv, num) ==
    LET present == {r \in Range(log) : PlayerOf(r, hv, num).id # NULL}
    IN  Sorted(
            {PA(r.game_id, NameOf(r, hv), PlayerOf(r, hv, num).id, OffenseType(num))
                : r \in present}
            \cup {PA(r.game_id, NameOf(r, hv), PlayerOf(r, hv, num).id,
                     DefenseType(PlayerOf(r, hv, num).def_pos)) : r \in present},
            PersonAppearanceColumns)

\* the rowid SQLite gives a row inserted without appearance_id: one more
\* than the largest in the table
NextRowid(rows) ==
    IF rows = <<>> THEN 1
    ELSE 1 + (CHOOSE m \in {rows[i].appearance_id : i \in 1..Len(rows)} :
                \A i \in 1..Len(rows) : rows[i].appearance_id <= m)

\* INSERT INTO person_appearance (game_id, team_id, person_id,
\* appearance_type_id): appearance_id is left to SQLite
WithRowids(rows, new) ==
    [i \in 1..Len(new) |-> new[i] @@ [appearance_id |-> NextRowid(rows) + i - 1]]

----------------------------------------------------------------------------
(* The script: its statements in the order the cells run them. *)

Stmt(op, tbl, hv, num) == [op |-> op, tbl |-> tbl, hv |-> hv, num |-> num]

S(op) == Stmt(op, "-", "-", 0)

\* the script with cell In[20] (team) ahead of cell In[18] (league)
ScriptTeamBeforeLeague ==
    \* In[13]: for name, data in tables.items(): DROP TABLE IF EXISTS; to_sql
    [i \in 1..(2 * Len(RawTables)) |->
        IF i % 2 = 1 THEN Stmt("In13_drop", RawTables[(i + 1) \div 2], "-", 0)
        ELSE Stmt("In13_to_sql", RawTables[i \div 2], "-", 0)]
    \o <<S("In15_c1"), S("In15_c2"),
         S("In16_c1"), S("In16_c2"),
         S("In17_c1"), S("In17_c2"),
         S("In20_c1"), S("In20_c2"),
         S("In19_c1"), S("In19_c2"), S("In19_to_sql"),
         S("In18_c1"), S("In18_c2"),
         S("In21_c1"), S("In21_c2"),
         S("In22_c1"), S("In22_c2"),
         S("In23_c0"), S("In23_c1"), S("In23_c2")>>
    \* In[23]: for hv in ["h","v"]: for num in range(1,10)
    \o [i \in 1..(2 * NumSlots) |->
        Stmt("In23_template", "-", IF i <= NumSlots THEN "h" ELSE "v",
             ((i - 1) % NumSlots) + 1)]
    \* In[26]: for t in tables: DROP TABLE t
    \o [i \in 1..Len(CleanupTables) |-> Stmt("In26_drop", CleanupTables[i], "-", 0)]

Script ==
    \* In[13]: for name, data in tables.items(): DROP TABLE IF EXISTS; to_sql
    [i \in 1..(2 * Len(RawTables)) |->
        IF i % 2 = 1 THEN Stmt("In13_drop", RawTables[(i + 1) \div 2], "-", 0)
        ELSE Stmt("In13_to_sql", RawTables[i \div 2], "-", 0)]
    \o <<S("In15_c1"), S("In15_c2"),
         S("In16_c1"), S("In16_c2"),
         S("In17_c1"), S("In17_c2"),
         S("In18_c1"), S("In18_c2"),
         S("In19_c1"), S("In19_c2"), S("In19_to_sql"),
         S("In20_c1"), S("In20_c2"),
         S("In21_c1"), S("In21_c2"),
         S("In22_c1"), S("In22_c2"),
         S("In23_c0"), S("In23_c1"), S("In23_c2")>>
    \* In[23]: for hv in ["h","v"]: for num in range(1,10)
    \o [i \in 1..(2 * NumSlots) |->
        Stmt("In23_template", "-", IF i <= NumSlots THEN "h" ELSE "v",
             ((i - 1) % NumSlots) + 1)]
    \* In[26]: for t in tables: DROP TABLE t
    \o [i \in 1..Len(CleanupTables) |-> Stmt("In26_drop", CleanupTables[i], "-", 0)]

\* the index of the first statement of In[26]
CleanupStart == Len(Script) - Len(CleanupTables) + 1

\* the content of the eight normalized tables
Normalized(d) == [t \in NormalizedTables |-> d[t]]

NoSnapshot == [taken |-> FALSE, tables |-> <<>>]

Snapshot(d) == [taken |-> TRUE, tables |-> Normalized(d)]

\* the statement at pc is op and the run has not stopped
At(op) == status = "running" /\ pc <= Len(Script) /\ Script[pc].op = op

\* the script goes on with the next statement
Continue(r) ==
    /\ pc' = pc + 1
    /\ status' = IF pc = Len(Script) THEN "done" ELSE "running"
    /\ error' = "none"
    /\ completed' = IF r.err = "none" THEN completed \cup {pc} ELSE completed
    /\ snapshot' = IF pc = Len(Script) /\ ~snapshot.taken THEN Snapshot(r.db)
                   ELSE snapshot
    /\ pre_cleanup' = IF pc + 1 = CleanupStart THEN Snapshot(r.db) ELSE pre_cleanup

\* the exception leaves the script: nothing after the statement runs
Raise(r) ==
    /\ pc' = pc
    /\ status' = "halted"
    /\ error' = r.err
    /\ UNCHANGED <<completed, snapshot, pre_cleanup>>

\* a statement with result r; caught: it stands in a try: ... except: pass
Execute(r, caught) ==
    /\ db' = r.db
    /\ IF r.err = "none" \/ caught THEN Continue(r) ELSE Raise(r)
    /\ UNCHANGED <<csv_game_log, csv_team_codes, csv_appearance_type, run, interrupted>>

\* a run_command that goes on to the next statement after an exception
run_command_ignoring_errors(r) == Execute(r, TRUE)

\* run_command(c): an exception of conn.execute(c) is not handled
run_command(r) == Execute(r, FALSE)

----------------------------------------------------------------------------
(* What each statement of the script does to the store d. *)

Effect(d, s, game_log_csv, team_codes_csv, appearance_type_csv) ==
    LET log == d["game_log"].rows
        appearances == d["person_appearance"].rows
    IN
    CASE s.op = "In13_drop" ->
            \* conn.execute("DROP TABLE IF EXISTS {}".format(name)), on a
            \* connection opened without PRAGMA foreign_keys
            DropTable(d, s.tbl, TRUE, FALSE)
      [] s.op = "In13_to_sql" ->
            \* data.to_sql(name, conn, index=False)
            to_sql(d, s.tbl, RawData(s.tbl, game_log_csv, team_codes_csv), "fail")
      [] s.op = "In15_c1" ->
            From(d, {"game_log"}, AddColumnGameId(d))
      [] s.op = "In15_c2" ->
            From(d, {"game_log"}, WithGameId(d, UpdateGameId(d)))
      [] s.op = "In16_c1" ->
            \* CREATE TABLE IF NOT EXISTS person
            CreateTable(d, "person", TRUE)
      [] s.op = "In16_c2" ->
            \* INSERT OR IGNORE INTO person SELECT ... FROM person_codes
            From(d, {"person_codes"},
                 Insert(d, "person", PersonSelect(d["person_codes"].rows),
                        TRUE, PragmaForeignKeys))
      [] s.op = "In17_c1" ->
            \* CREATE TABLE IF NOT EXISTS park
            CreateTable(d, "park", TRUE)
      [] s.op = "In17_c2" ->
            \* INSERT OR IGNORE INTO park SELECT ... FROM park_codes
            From(d, {"park_codes"},
                 Insert(d, "park", ParkSelect(d["park_codes"].rows),
                        TRUE, PragmaForeignKeys))
      [] s.op = "In18_c1" ->
            \* CREATE TABLE IF NOT EXISTS league
            CreateTable(d, "league", TRUE)
      [] s.op = "In18_c2" ->
            \* INSERT OR IGNORE INTO league VALUES ...
            Insert(d, "league", LeagueValues, TRUE, PragmaForeignKeys)
      [] s.op = "In19_c1" ->
            \* DROP TABLE IF EXISTS appearance_type
            DropTable(d, "appearance_type", TRUE, PragmaForeignKeys)
      [] s.op = "In19_c2" ->
            \* CREATE TABLE appearance_type
            CreateTable(d, "appearance_type", FALSE)
      [] s.op = "In19_to_sql" ->
            \* appearance_type.to_sql('appearance_type', conn, index=False,
            \* if_exists='append')
            to_sql(d, "appearance_type", appearance_type_csv, "append")
      [] s.op = "In20_c1" ->
            \* CREATE TABLE IF NOT EXISTS team
            CreateTable(d, "team", TRUE)
      [] s.op = "In20_c2" ->
            \* INSERT OR IGNORE INTO team SELECT ... FROM team_codes
            From(d, {"team_codes"},
                 Insert(d, "team", TeamSelect(d["team_codes"].rows),
                        TRUE, PragmaForeignKeys))
      [] s.op = "In21_c1" ->
            \* CREATE TABLE IF NOT EXISTS game
            CreateTable(d, "game", TRUE)
      [] s.op = "In21_c2" ->
            \* INSERT OR IGNORE INTO game SELECT ... FROM game_log
            From(d, {"game_log"}, WithGameId(d,
                 Insert(d, "game", GameSelect(log), TRUE, PragmaForeignKeys)))
      [] s.op = "In22_c1" ->
            \* CREATE TABLE IF NOT EXISTS team_appearance
            CreateTable(d, "team_appearance", TRUE)
      [] s.op = "In22_c2" ->
            \* INSERT OR IGNORE INTO team_appearance SELECT ... UNION SELECT ...
            From(d, {"game_log"}, WithGameId(d,
                 Insert(d, "team_appearance", TeamAppearanceSelect(log),
                        TRUE, PragmaForeignKeys)))
      [] s.op = "In23_c0" ->
            \* DROP TABLE IF EXISTS person_appearance
            DropTable(d, "person_appearance", TRUE, PragmaForeignKeys)
      [] s.op = "In23_c1" ->
            \* CREATE TABLE person_appearance
            CreateTable(d, "person_appearance", FALSE)
      [] s.op = "In23_c2" ->
            \* INSERT OR IGNORE INTO person_appearance (...) SELECT ... UNION ...
            From(d, {"game_log"}, WithGameId(d,
                 Insert(d, "person_appearance",
                        WithRowids(appearances, PersonAppearanceSelect(log)),
                        TRUE, PragmaForeignKeys)))
      [] s.op = "In23_template" ->
            \* template.format(hv=..., num=...): a plain INSERT
            From(d, {"game_log"}, WithGameId(d,
                 Insert(d, "person_appearance",
                        WithRowids(appearances, TemplateSelect(log, s.hv, s.num)),
                        FALSE, PragmaForeignKeys)))
      [] s.op = "In26_drop" ->
            \* DROP TABLE {}
            DropTable(d, s.tbl, FALSE, PragmaForeignKeys)

\* the result of the statement the script is at
Current ==
    Effect(db, Script[pc], csv_game_log, csv_team_codes, csv_appearance_type)

----------------------------------------------------------------------------
(* One action per statement. *)

\* In[13]: conn.execute("DROP TABLE IF EXISTS {}".format(name))
In13_drop == At("In13_drop") /\ Execute(Current, FALSE)

\* In[13]: data.to_sql(name, conn, index=False)
In13_to_sql == At("In13_to_sql") /\ Execute(Current, FALSE)

\* In[15]: try: run_command(c1) except: pass
In15_c1 == At("In15_c1") /\ Execute(Current, TRUE)

\* In[15]: run_command(c2)
In15_c2 == At("In15_c2") /\ run_command(Current)

\* In[16]: run_command(c1), run_command(c2): person
In16_c1 == At("In16_c1") /\ run_command(Current)

In16_c2 == At("In16_c2") /\ run_command(Current)

\* In[17]: run_command(c1), run_command(c2): park
In17_c1 == At("In17_c1") /\ run_command(Current)

In17_c2 == At("In17_c2") /\ run_command(Current)

\* In[18]: run_command(c1), run_command(c2): league
In18_c1 == At("In18_c1") /\ run_command(Current)

In18_c2 == At("In18_c2") /\ run_command(Current)

\* In[19]: run_command(c1), run_command(c2), appearance_type.to_sql(...)
In19_c1 == At("In19_c1") /\ run_command(Current)

In19_c2 == At("In19_c2") /\ run_command(Current)

In19_to_sql == At("In19_to_sql") /\ Execute(Current, FALSE)

\* In[20]: run_command(c1), run_command(c2): team
In20_c1 == At("In20_c1") /\ run_command(Current)

In20_c2 == At("In20_c2") /\ run_command(Current)

\* In[21]: run_command(c1), run_command(c2): game
In21_c1 == At("In21_c1") /\ run_command(Current)

In21_c2 == At("In21_c2") /\ run_command(Current)

\* In[22]: run_command(c1), run_command(c2): team_appearance
In22_c1 == At("In22_c1") /\ run_command(Current)

In22_c2 == At("In22_c2") /\ run_command(Current)

\* In[23]: run_command(c0), run_command(c1), run_command(c2)
In23_c0 == At("In23_c0") /\ run_command(Current)

In23_c1 == At("In23_c1") /\ run_command(Current)

In23_c2 == At("In23_c2") /\ run_command(Current)

\* In[23]: run_command(template.format(**query_vars)) for each hv, num
In23_template == At("In23_template") /\ run_command(Current)

\* In[26]: run_command(c) for each raw table
In26_drop == At("In26_drop") /\ run_command(Current)

\* the script is started again, from its first statement, on the same store
Restart ==
    /\ run < MaxRuns
    /\ run' = run + 1
    /\ pc' = 1
    /\ status' = "running"
    /\ error' = "none"
    /\ completed' = {}
    /\ pre_cleanup' = NoSnapshot
    /\ UNCHANGED <<db, csv_game_log, csv_team_codes, csv_appearance_type, snapshot>>

\* the script is run again after it ended (all cells run, or an exception)
Rerun ==
    /\ status \in {"done", "halted"}
    /\ Restart
    /\ UNCHANGED interrupted

\* the process is killed between two statements, before In[26], and the
\* script is run again
Interrupt ==
    /\ status = "running"
    /\ 1 < pc /\ pc <= CleanupStart
    /\ Restart
    /\ interrupted' = TRUE

InitWith(inputs) ==
    /\ db = [t \in AllTables |-> Absent]
    /\ \E in \in inputs :
            /\ csv_game_log = in[1]
            /\ csv_team_codes = in[2]
            /\ csv_appearance_type = in[3]
    /\ pc = 1
    /\ status = "running"
    /\ error = "none"
    /\ run = 1
    /\ interrupted = FALSE
    /\ completed = {}
    /\ snapshot = NoSnapshot
    /\ pre_cleanup = NoSnapshot

Init == InitWith(Inputs)

Statement ==
    \/ In13_drop \/ In13_to_sql
    \/ In15_c1 \/ In15_c2
    \/ In16_c1 \/ In16_c2
    \/ In17_c1 \/ In17_c2
    \/ In18_c1 \/ In18_c2
    \/ In19_c1 \/ In19_c2 \/ In19_to_sql
    \/ In20_c1 \/ In20_c2
    \/ In21_c1 \/ In21_c2
    \/ In22_c1 \/ In22_c2
    \/ In23_c0 \/ In23_c1 \/ In23_c2 \/ In23_template
    \/ In26_drop

Next == Statement \/ Rerun

Spec == Init /\ [][Next]_vars

\* game_log.csv of one row, for the runs that may be killed half way
InterruptInputs ==
    {<<g, TeamCodesCsv, AppearanceTypeCsv>> : g \in SeqsUpTo(RowSpace, 1)}

InitInterrupt == InitWith(InterruptInputs)

NextInterrupt == Statement \/ Rerun \/ Interrupt

SpecInterrupt == InitInterrupt /\ [][NextInterrupt]_vars

\* the index of the first statement of In[15]
Cell15Start == 2 * Len(RawTables) + 1

\* the notebook is run again from cell In[15] on after it ended: the case
\* the try/except of In[15] is written for (ALTER TABLE has no IF NOT EXISTS)
RunFromCell15 ==
    /\ status \in {"done", "halted"}
    /\ run < MaxRuns
    /\ run' = run + 1
    /\ pc' = Cell15Start
    /\ status' = "running"
    /\ error' = "none"
    /\ completed' = {}
    /\ pre_cleanup' = NoSnapshot
    /\ UNCHANGED <<db, csv_game_log, csv_team_codes, csv_appearance_type, snapshot,
                   interrupted>>

NextCells == Statement \/ Rerun \/ RunFromCell15

SpecCells == InitInterrupt /\ [][NextCells]_vars

----------------------------------------------------------------------------
(* Notions the properties below share. *)

\* the index in Script of the one statement named op
IndexOf(op) == CHOOSE i \in 1..Len(Script) : Script[i].op = op

\* this run has executed the statement op with success
Done(op) == IndexOf(op) \in completed

Rows(t) == db[t].rows

ExistingTables == {t \in AllTables : db[t].exists}

RECURSIVE RunFrom(_, _, _, _, _)
\* the script run from statement i on store d without being stopped from
\* outside: [err, db] when it ends or raises
RunFrom(i, d, game_log_csv, team_codes_csv, appearance_type_csv) ==
    IF i > Len(Script) THEN Result("none", d)
    ELSE LET r == Effect(d, Script[i], game_log_csv, team_codes_csv,
                         appearance_type_csv)
         IN  IF r.err = "none" \/ Script[i].op = "In15_c1"
             THEN RunFrom(i + 1, r.db, game_log_csv, team_codes_csv,
                          appearance_type_csv)
             ELSE r

\* one uninterrupted run of the script on a new store, on this behaviour's inputs
UninterruptedRun ==
    RunFrom(1, [t \in AllTables |-> Absent], csv_game_log, csv_team_codes,
            csv_appearance_type)

\* every foreign key the CREATE TABLE statements declare holds in the store
DeclaredForeignKeysHold ==
    \A t \in NormalizedTables : \A fk \in ForeignKeys(t) :
        \A r \in Range(Rows(t)) :
            ~IsNull(fk.col, r[fk.col]) =>
                \E p \in Range(Rows(fk.ref)) : p[fk.refcol] = r[fk.col]

----------------------------------------------------------------------------
(* C1.  Running the whole script a second time against the same store and  *)
(* the same raw inputs completes without error and leaves every normalized *)
(* table with the content it had after the first run.                      *)
C1_SecondRunIdempotent ==
    snapshot.taken =>
        /\ status # "halted"
        /\ status = "done" => Normalized(db) = snapshot.tables

(* C2.  If the script is killed between two statements before cleanup,     *)
(* running it again from the beginning runs to completion and ends in the  *)
(* store an uninterrupted run ends in (for the inputs on which an          *)
(* uninterrupted run completes).                                           *)
C2_RerunAfterInterruptCompletes ==
    (interrupted /\ status \in {"halted", "done"} /\ UninterruptedRun.err = "none")
        => (status = "done" /\ db = UninterruptedRun.db)

(* C3.  person_appearance never holds two rows with the same (person_id,   *)
(* team_id, game_id, appearance_type_id).                                  *)
C3_NoDuplicateAppearance ==
    \A i, j \in 1..Len(Rows("person_appearance")) :
        LET a == Rows("person_appearance")[i]
            b == Rows("person_appearance")[j]
        IN  i # j =>
                <<a.person_id, a.team_id, a.game_id, a.appearance_type_id>>
                    # <<b.person_id, b.team_id, b.game_id, b.appearance_type_id>>

\* the foreign keys of the data model: those the script declares, and
\* TeamAppearance -> League
SchemaForeignKeys(t) ==
    ForeignKeys(t) \cup
        (IF t = "team_appearance" THEN {FK("league_id", "league", "league_id")}
         ELSE {})

(* C4.  In every state the script reaches, every non-NULL foreign-key      *)
(* value held in team, game, team_appearance and person_appearance refers  *)
(* to an existing row of the referenced table.                             *)
C4_ReferentialIntegrity ==
    \A t \in {"team", "game", "team_appearance", "person_appearance"} :
        \A fk \in SchemaForeignKeys(t) : \A r \in Range(Rows(t)) :
            ~IsNull(fk.col, r[fk.col]) =>
                \E p \in Range(Rows(fk.ref)) : p[fk.refcol] = r[fk.col]

\* every game of the game table has exactly two team_appearance rows, one
\* with home = 1 and one with home = 0
TwoSidesPerGame ==
    \A g \in Range(Rows("game")) :
        LET sides == {i \in 1..Len(Rows("team_appearance")) :
                        Rows("team_appearance")[i].game_id = g.game_id}
        IN  /\ Cardinality(sides) = 2
            /\ {Rows("team_appearance")[i].home : i \in sides} = {0, 1}

(* C5, as claimed.  After the team_appearance insert every game has        *)
(* exactly two team_appearance rows, home = 1 and home = 0, for every      *)
(* game_log input.                                                         *)
C5_TwoSidesForEveryInput == Done("In22_c2") => TwoSidesPerGame

\* no row names one team on both sides, and the rows that share a game_id
\* name the same home team and the same visiting team
SidesDistinct(log) ==
    /\ \A r \in Range(log) : r.h_name # r.v_name
    /\ \A r1, r2 \in Range(log) :
            GameId(r1) = GameId(r2) =>
                r1.h_name = r2.h_name /\ r1.v_name = r2.v_name

(* C5, amended.  After the team_appearance insert every game has exactly   *)
(* two team_appearance rows, home = 1 and home = 0, for every game_log     *)
(* input in which no row has h_name equal to v_name and the rows that      *)
(* share a game_id name the same home team and the same visiting team.     *)
C5_TwoSidesWhenSidesDistinct ==
    (Done("In22_c2") /\ SidesDistinct(csv_game_log)) => TwoSidesPerGame

C5_Witness ==
    /\ Done("In22_c2")
    /\ SidesDistinct(csv_game_log)
    /\ Len(Rows("game")) = 2
    /\ Len(Rows("team_appearance")) = 4

(* C6.  Every team_appearance row the script persists has a league_id that *)
(* is the league_id of a row of league (stated here for the rows whose     *)
(* league_id is not NULL).                                                 *)
C6_LeagueResolves ==
    \A r \in Range(Rows("team_appearance")) :
        r.league_id # NULL =>
            \E l \in Range(Rows("league")) : l.league_id = r.league_id

(* C7.  For every game_log row, game_id is the text date || h_name ||      *)
(* number_of_game (18710504, FW1, 0 give 18710504FW10), and after the game *)
(* insert exactly one row of game has that game_id.                        *)
C7_GameIdDerived ==
    /\ (Done("In15_c2") /\ db["game_log"].exists) =>
            \A r \in Range(Rows("game_log")) :
                /\ r.game_id = (NatToStr(r.date) \o r.h_name) \o NatToStr(r.number_of_game)
                /\ (r.date = 18710504 /\ r.h_name = "FW1" /\ r.number_of_game = 0)
                        => r.game_id = "18710504FW10"
    /\ (Done("In21_c2") /\ db["game_log"].exists) =>
            \A r \in Range(Rows("game_log")) :
                Cardinality({i \in 1..Len(Rows("game")) :
                                Rows("game")[i].game_id = r.game_id}) = 1

C7_Witness ==
    /\ Done("In21_c2")
    /\ Len(Rows("game_log")) = 2
    /\ \E g \in Range(Rows("game")) : g.game_id = "18710504FW10"

(* C8.  When the script has run to completion the store holds exactly the  *)
(* eight normalized tables, none of the four raw tables, and the content   *)
(* of the eight tables is what it was immediately before the four drops.   *)
C8_CleanupLeavesEight ==
    status = "done" =>
        /\ ExistingTables = NormalizedTables
        /\ pre_cleanup.taken
        /\ Normalized(db) = pre_cleanup.tables

C8_Witness ==
    /\ status = "done"
    /\ Len(Rows("person_appearance")) > 0
    /\ Len(Rows("team_appearance")) > 0

(* C9.  Cleanup drops a raw table only after every earlier statement of    *)
(* the run, all 18 templated person_appearance inserts included, has       *)
(* completed with success; after a failed statement no raw table is        *)
(* dropped.                                                                *)
C9_CleanupAfterInserts ==
    [][(At("In26_drop") /\ \E t \in Range(CleanupTables) :
                                db[t].exists /\ ~db'[t].exists)
        => /\ 1..(CleanupStart - 1) \subseteq completed
           /\ Cardinality({i \in completed : Script[i].op = "In23_template"})
                = 2 * NumSlots]_vars

C9_Witness ==
    /\ status = "running"
    /\ pc > CleanupStart
    /\ ~db["game_log"].exists
    /\ db["person_codes"].exists
    /\ Len(Rows("person_appearance")) > 0

(* C10.  A statement of run_command that fails with a foreign-key          *)
(* violation halts the script: the store is left as it was before the      *)
(* statement, with the effects of the earlier statements, and no later     *)
(* statement of the run is executed.                                       *)
C10_ForeignKeyFailureHalts ==
    [][/\ (status = "running" /\ pc <= Len(Script) /\ Current.err = "fk")
            => (status' = "halted" /\ error' = "fk" /\ db' = db /\ pc' = pc)
       /\ status = "halted"
            => (db' = db /\ (pc' = pc \/ (pc' = 1 /\ run' = run + 1)))]_vars

C10_Witness ==
    /\ status = "halted"
    /\ error = "fk"
    /\ Script[pc].op = "In23_template"
    /\ Len(Rows("person_appearance")) > 0

(* C11.  The handler around ALTER TABLE game_log ADD COLUMN game_id         *)
(* discards only the failure "duplicate column name: game_id": when the    *)
(* statement fails in any other way (game_log is missing), the script      *)
(* stops at that statement with that failure.                              *)
C11_HandlerDiscardsOnlyDuplicateColumn ==
    [][(At("In15_c1") /\ Current.err \notin {"none", "dup_column"})
        => (status' = "halted" /\ error' = Current.err /\ pc' = pc)]_vars

\* the statements that insert into a normalized table
InsertSteps ==
    {"In16_c2", "In17_c2", "In18_c2", "In19_to_sql", "In20_c2", "In21_c2",
     "In22_c2", "In23_c2", "In23_template"}

(* C12.  No insert step of the script into a normalized table fails on a   *)
(* primary key that is already in the table: the step raises no UNIQUE     *)
(* failure, and the rows the table held stay as they were.                 *)
C12_KeyCollisionSkipped ==
    [][(status = "running" /\ pc <= Len(Script) /\ Script[pc].op \in InsertSteps)
        => /\ ~(status' = "halted" /\ error' = "unique")
           /\ \A t \in NormalizedTables :
                /\ Len(db'[t].rows) >= Len(db[t].rows)
                /\ SubSeq(db'[t].rows, 1, Len(db[t].rows)) = db[t].rows]_vars

\* the statements that define the schema of the normalized tables
SchemaSteps ==
    {"In16_c1", "In17_c1", "In18_c1", "In19_c1", "In19_c2", "In20_c1",
     "In21_c1", "In22_c1", "In23_c0", "In23_c1"}

\* all eight normalized tables are in the store and hold rows
Initialized ==
    \A t \in NormalizedTables : db[t].exists /\ Len(db[t].rows) > 0

(* C13.  A schema-creation statement of the script that is executed on a   *)
(* store in which all eight normalized tables exist and hold rows raises   *)
(* no error and leaves the rows of the eight tables as they were.          *)
C13_SchemaCreationKeepsRows ==
    [][(Initialized /\ status = "running" /\ pc <= Len(Script)
            /\ Script[pc].op \in SchemaSteps)
        => /\ status' # "halted"
           /\ \A t \in NormalizedTables : db'[t].exists /\ db'[t].rows = db[t].rows]_vars

UmpireRoles == {"UHP", "U1B", "U2B", "U3B", "ULF", "URF"}

(* C14.  A person_appearance row has team_id NULL if and only if its       *)
(* appearance_type_id is one of the six umpire roles: the rows of          *)
(* managers, awards, starting pitchers and batting/fielding slots carry a  *)
(* team_id.                                                                *)
C14_TeamNullOnlyForUmpires ==
    \A r \in Range(Rows("person_appearance")) :
        (r.team_id = NULL) <=> (r.appearance_type_id \in UmpireRoles)

C14_Witness ==
    /\ status = "done"
    /\ \E r \in Range(Rows("person_appearance")) : r.appearance_type_id \in UmpireRoles
    /\ \A k \in {"MM", "AWP", "ALP", "AWB", "PSP", "O1", "D1"} :
            \E r \in Range(Rows("person_appearance")) : r.appearance_type_id = k

\* the index in Script of the templated insert of side hv and slot num
TemplateIndex(hv, num) ==
    CHOOSE i \in 1..Len(Script) :
        Script[i].op = "In23_template" /\ Script[i].hv = hv /\ Script[i].num = num

\* (row, side, slot) of game_log.csv with a player id and a defensive
\* position that is 0 or NULL
UnknownPositionSlots ==
    {x \in Range(csv_game_log) \X {"h", "v"} \X Slots :
        /\ PlayerOf(x[1], x[2], x[3]).id # NULL
        /\ PlayerOf(x[1], x[2], x[3]).def_pos \in {0, NULLI}}

(* C15.  For every side and batting slot with a player id and a defensive  *)
(* position of 0 or NULL, the templated insert of that slot does not fail, *)
(* and once it has run person_appearance holds a row of that player with   *)
(* the 'Unknown Position' type D10; no row has a NULL type or the type D0. *)
C15_UnknownPositionTagged ==
    /\ \A x \in UnknownPositionSlots :
        /\ ~(status = "halted" /\ pc = TemplateIndex(x[2], x[3]))
        /\ TemplateIndex(x[2], x[3]) \in completed =>
                \E r \in Range(Rows("person_appearance")) :
                    /\ r.game_id = GameId(x[1])
                    /\ r.person_id = PlayerOf(x[1], x[2], x[3]).id
                    /\ r.appearance_type_id = "D10"
    /\ \A r \in Range(Rows("person_appearance")) :
            r.appearance_type_id \notin {NULL, "D0"}

\* this run has executed every statement ahead of In[26] with success
AllInsertsDone == 1..(CleanupStart - 1) \subseteq completed

\* every row of game_log.csv names a winning or a losing pitcher
EveryGameHasPitcher ==
    \A r \in Range(csv_game_log) :
        r.winning_pitcher_id # NULL \/ r.losing_pitcher_id # NULL

(* C16.  For an input in which every game_log row has a winning or a       *)
(* losing pitcher id, once all person_appearance inserts have completed    *)
(* the game_id values of person_appearance are the game_id values of game. *)
C16_EveryGameHasAppearance ==
    (AllInsertsDone /\ EveryGameHasPitcher) =>
        {r.game_id : r \in Range(Rows("person_appearance"))}
            = {g.game_id : g \in Range(Rows("game"))}

C16_Witness ==
    /\ AllInsertsDone
    /\ EveryGameHasPitcher
    /\ Len(Rows("game")) = 2
    /\ \E r \in Range(csv_game_log) : r.hp_umpire_id = NULL /\ r.h_manager_id = NULL

AwardTypes == {"AWP", "ALP", "ASP", "AWB"}

\* the (game_id, team_id, person_id) of the person_appearance rows of a type
AppearancesOfType(type) ==
    {<<r.game_id, r.team_id, r.person_id>> :
        r \in {x \in Range(Rows("person_appearance")) : x.appearance_type_id = type}}

\* the person a game_log row names for an award
AwardPerson(r, type) ==
    CASE type = "AWP" -> r.winning_pitcher_id
      [] type = "ALP" -> r.losing_pitcher_id
      [] type = "ASP" -> r.saving_pitcher_id
      [] type = "AWB" -> r.winning_rbi_batter_id

\* both scores are recorded and they differ
ScoresDiffer(r) ==
    r.h_score # NULLI /\ r.v_score # NULLI /\ r.h_score # r.v_score

\* the team with the higher score; for the losing pitcher, with the lower
AwardSide(r, type) ==
    IF (r.h_score > r.v_score) <=> (type # "ALP") THEN r.h_name ELSE r.v_name

(* C17.  After the insert of In[23] c2, for every game_log row with        *)
(* differing scores the AWP, ASP and AWB rows carry the team with the      *)
(* higher score and the ALP row the team with the lower score; an award    *)
(* row exists only for a person id that is not NULL.                       *)
C17_AwardsFollowTheScore ==
    Done("In23_c2") =>
        \A type \in AwardTypes :
            /\ \A r \in Range(csv_game_log) :
                    (ScoresDiffer(r) /\ AwardPerson(r, type) # NULL) =>
                        <<GameId(r), AwardSide(r, type), AwardPerson(r, type)>>
                            \in AppearancesOfType(type)
            /\ \A a \in AppearancesOfType(type) :
                    /\ a[3] # NULL
                    /\ \E r \in Range(csv_game_log) :
                            /\ GameId(r) = a[1]
                            /\ AwardPerson(r, type) = a[3]
                            /\ ScoresDiffer(r) => a[2] = AwardSide(r, type)

C17_Witness ==
    /\ Done("In23_c2")
    /\ \A type \in AwardTypes : AppearancesOfType(type) # {}
    /\ \E r \in Range(csv_game_log) : ScoresDiffer(r) /\ r.h_score > r.v_score
    /\ \E r \in Range(csv_game_log) :
            ScoresDiffer(r) /\ r.h_score < r.v_score /\ r.saving_pitcher_id # NULL

(* C18.  After the insert of In[23] c2, for a game_log row whose scores    *)
(* are equal or NULL the winning-pitcher row and the losing-pitcher row    *)
(* both carry the visiting team; when no other row shares the game_id, no  *)
(* AWP or ALP row of that game carries another team.                       *)
C18_TieGoesToVisitor ==
    Done("In23_c2") =>
        \A r \in Range(csv_game_log) : ~ScoresDiffer(r) =>
            \A type \in {"AWP", "ALP"} :
                /\ AwardPerson(r, type) # NULL =>
                        <<GameId(r), r.v_name, AwardPerson(r, type)>>
                            \in AppearancesOfType(type)
                /\ (\A x \in Range(csv_game_log) : GameId(x) = GameId(r) => x = r)
                        => \A a \in AppearancesOfType(type) :
                                a[1] = GameId(r) => a[2] = r.v_name

C18_Witness ==
    /\ Done("In23_c2")
    /\ \E r \in Range(csv_game_log) :
            /\ r.h_score = r.v_score /\ r.h_score # NULLI
            /\ <<GameId(r), r.v_name, r.winning_pitcher_id>> \in AppearancesOfType("AWP")
            /\ <<GameId(r), r.v_name, r.losing_pitcher_id>> \in AppearancesOfType("ALP")
    /\ \E r \in Range(csv_game_log) :
            /\ r.h_score = NULLI /\ r.v_score = NULLI
            /\ <<GameId(r), r.v_name, r.winning_pitcher_id>> \in AppearancesOfType("AWP")

(* C19.  Every row of person_appearance has a person_id and a game_id that *)
(* are not NULL and an appearance_type_id that is not NULL and is the      *)
(* appearance_type_id of a row of appearance_type.                         *)
C19_AppearanceFieldsPresent ==
    \A r \in Range(Rows("person_appearance")) :
        /\ r.person_id # NULL
        /\ r.game_id # NULL
        /\ r.appearance_type_id # NULL
        /\ \E a \in Range(Rows("appearance_type")) :
                a.appearance_type_id = r.appearance_type_id

\* the statements that create and fill each table a foreign key refers to
StepsOf(t) ==
    CASE t = "person" -> {"In16_c1", "In16_c2"}
      [] t = "park" -> {"In17_c1", "In17_c2"}
      [] t = "league" -> {"In18_c1", "In18_c2"}
      [] t = "appearance_type" -> {"In19_c2", "In19_to_sql"}
      [] t = "team" -> {"In20_c1", "In20_c2"}
      [] t = "game" -> {"In21_c1", "In21_c2"}

(* C20.  A statement creates a normalized table or adds rows to it only    *)
(* after the statements that create and fill every table its foreign keys  *)
(* refer to have run with success in this run: league before team, park    *)
(* before game, team and game before team_appearance, and person, team,    *)
(* game and appearance_type before person_appearance.                      *)
C20_DependencyOrder ==
    [][\A t \in NormalizedTables :
        (db'[t].exists /\ (~db[t].exists \/ Len(db'[t].rows) > Len(db[t].rows)))
            => \A fk \in SchemaForeignKeys(t) : \A op \in StepsOf(fk.ref) :
                    Done(op)]_vars

C20_Witness ==
    /\ status = "done"
    /\ \A t \in NormalizedTables : Len(Rows(t)) > 0

====
